---- MODULE Spec2Model ----
(***************************************************************************)
(* The tool dispatcher of mcp-server-monday (tools.py) and the document   *)
(* and file handlers (document.py): the catalog of tools, the match on   *)
(* the tool name, the extraction of the arguments, the GraphQL document   *)
(* each handler builds, the single call of monday_client.custom._query    *)
(* and the text each handler makes of the response.                       *)
(*                                                                         *)
(* A Python value is a record tagged by t: None, a str, an int, a list,   *)
(* or a dict (a function from keys to values).  A str is a sequence of    *)
(* pieces: single characters where the characters matter (titles and      *)
(* contents), whole words elsewhere.  A built document and a rendered     *)
(* text are sequences of pieces too: the pieces of the f-string template, *)
(* and between them the pieces of the interpolated values.                *)
(***************************************************************************)
EXTENDS Integers, Sequences, FiniteSets, TLC

VARIABLES
    pc,         \* where handle_call_tool stands: idle, executing, except, logged, done
    name,       \* the tool name of the invocation
    arguments,  \* its argument mapping (a dict, or None)
    handler,    \* the case of the match statement that was taken
    document,   \* the document handed to monday_client.custom._query
    calls,      \* the number of _query calls of this invocation
    response,   \* what _query returned
    raised,     \* the exception in flight
    logged,     \* the records logger.error wrote during this invocation
    outcome,    \* what the host gets: content blocks or the exception
    listed,     \* what handle_list_tools returned last
    prev        \* an earlier finished invocation the host kept

vars == <<pc, name, arguments, handler, document, calls, response, raised,
          logged, outcome, listed, prev>>

---------------------------------------------------------------------------
(* Bounds of the model.                                                    *)

MaxStrLen == 2      \* longest title / content string
MaxCols == 2        \* most column values of an item
MaxAssets == 2      \* most assets of an item or update
MaxDocs == 2        \* most documents in a docs response

---------------------------------------------------------------------------
(* Python values.                                                          *)

NoneVal == [t |-> "none"]
StrVal(s) == [t |-> "str", s |-> s]
IntVal(n) == [t |-> "int", n |-> n]
ListVal(l) == [t |-> "list", l |-> l]
DictVal(m) == [t |-> "dict", m |-> m]

EmptyDict == DictVal([k \in {} |-> NoneVal])

\* bool(v): None, "", 0, [] and {} are false.
Truthy(v) ==
    CASE v.t = "none" -> FALSE
      [] v.t = "str"  -> v.s # <<>>
      [] v.t = "int"  -> v.n # 0
      [] v.t = "list" -> v.l # <<>>
      [] v.t = "dict" -> DOMAIN v.m # {}

\* key in d, for a dict d.
HasKey(d, k) == k \in DOMAIN d.m

\* d.get(k) and d.get(k, default), for a dict d.
Get(d, k) == IF HasKey(d, k) THEN d.m[k] ELSE NoneVal
GetDefault(d, k, default) == IF HasKey(d, k) THEN d.m[k] ELSE default

SeqsUpTo(S, n) == UNION {[1..k -> S] : k \in 0..n}

Digit(d) == <<"0", "1", "2", "3", "4", "5", "6", "7", "8", "9">>[d + 1]

RECURSIVE Decimal(_)
Decimal(n) == IF n < 10 THEN <<Digit(n)>> ELSE Decimal(n \div 10) \o <<Digit(n % 10)>>

\* f"{v}" for the values the handlers interpolate.
Render(v) ==
    CASE v.t = "none" -> <<"None">>
      [] v.t = "str"  -> v.s
      [] v.t = "int"  -> Decimal(v.n)
      [] OTHER        -> <<"<object>">>

RECURSIVE Flatten(_)
Flatten(ss) == IF ss = <<>> THEN <<>> ELSE Head(ss) \o Flatten(Tail(ss))

---------------------------------------------------------------------------
(* tools.py: ToolName.                                                     *)

LIST_BOARDS == "monday-list-boards"
GET_BOARD_GROUPS == "monday-get-board-groups"
GET_BOARD_COLUMNS == "monday-get-board-columns"
CREATE_ITEM == "monday-create-item"
UPDATE_ITEM == "monday-update-item"
CREATE_UPDATE == "monday-create-update"
LIST_ITEMS_IN_GROUPS == "monday-list-items-in-groups"
LIST_SUBITEMS_IN_ITEMS == "monday-list-subitems-in-items"
GET_ITEM_UPDATES == "monday-get-item-updates"
GET_DOCS == "monday-get-docs"
GET_DOC_CONTENT == "monday-get-doc-content"
CREATE_DOC == "monday-create-doc"
ADD_DOC_BLOCK == "monday-add-doc-block"
GET_ITEM_FILES == "monday-get-item-files"
GET_UPDATE_FILES == "monday-get-update-files"

Tool(n, props, req) == [name |-> n, properties |-> props, required |-> req]

\* A catalog in which one descriptor lost its prefix.
ServerToolsRenamed ==
    << Tool(CREATE_ITEM, {"boardId", "itemTitle", "groupId", "parentItemId", "columnValues"},
            {"boardId", "itemTitle"}),
       Tool(UPDATE_ITEM, {"boardId", "itemId", "columnValues"},
            {"boardId", "itemId", "columnValues"}),
       Tool(GET_BOARD_COLUMNS, {"boardId"}, {"boardId"}),
       Tool(GET_BOARD_GROUPS, {"boardId"}, {"boardId"}),
       Tool(CREATE_UPDATE, {"itemId", "updateText"}, {"itemId", "updateText"}),
       Tool(LIST_BOARDS, {"limit"}, {}),
       Tool(LIST_ITEMS_IN_GROUPS, {"boardId", "groupIds", "limit", "cursor"},
            {"boardId", "groupIds"}),
       Tool(LIST_SUBITEMS_IN_ITEMS, {"itemIds"}, {"itemIds"}),
       Tool(GET_ITEM_UPDATES, {"itemId", "limit"}, {"itemId"}),
       Tool("get-docs", {"limit", "folder_id"}, {}),
       Tool(GET_DOC_CONTENT, {"doc_id"}, {"doc_id"}),
       Tool(CREATE_DOC, {"title", "content", "folder_id"}, {"title", "content"}),
       Tool(ADD_DOC_BLOCK, {"doc_id", "block_type", "content", "after_block_id"},
            {"doc_id", "block_type", "content"}),
       Tool(GET_ITEM_FILES, {"itemId"}, {"itemId"}),
       Tool(GET_UPDATE_FILES, {"updateId"}, {"updateId"}) >>

\* tools.py: ServerTools, in the order of the list.
ServerTools ==
    << Tool(CREATE_ITEM, {"boardId", "itemTitle", "groupId", "parentItemId", "columnValues"},
            {"boardId", "itemTitle"}),
       Tool(UPDATE_ITEM, {"boardId", "itemId", "columnValues"},
            {"boardId", "itemId", "columnValues"}),
       Tool(GET_BOARD_COLUMNS, {"boardId"}, {"boardId"}),
       Tool(GET_BOARD_GROUPS, {"boardId"}, {"boardId"}),
       Tool(CREATE_UPDATE, {"itemId", "updateText"}, {"itemId", "updateText"}),
       Tool(LIST_BOARDS, {"limit"}, {}),
       Tool(LIST_ITEMS_IN_GROUPS, {"boardId", "groupIds", "limit", "cursor"},
            {"boardId", "groupIds"}),
       Tool(LIST_SUBITEMS_IN_ITEMS, {"itemIds"}, {"itemIds"}),
       Tool(GET_ITEM_UPDATES, {"itemId", "limit"}, {"itemId"}),
       Tool(GET_DOCS, {"limit", "folder_id"}, {}),
       Tool(GET_DOC_CONTENT, {"doc_id"}, {"doc_id"}),
       Tool(CREATE_DOC, {"title", "content", "folder_id"}, {"title", "content"}),
       Tool(ADD_DOC_BLOCK, {"doc_id", "block_type", "content", "after_block_id"},
            {"doc_id", "block_type", "content"}),
       Tool(GET_ITEM_FILES, {"itemId"}, {"itemId"}),
       Tool(GET_UPDATE_FILES, {"updateId"}, {"updateId"}) >>

\* The fall-through case of the match statement.
CaseDefault == "case _"

\* A match statement that lost the case of get-update-files.
RouteMissingCase(n) ==
    CASE n = CREATE_ITEM -> "handle_monday_create_item"
      [] n = GET_BOARD_COLUMNS -> "handle_monday_get_board_columns"
      [] n = GET_BOARD_GROUPS -> "handle_monday_get_board_groups"
      [] n = CREATE_UPDATE -> "handle_monday_create_update_on_item"
      [] n = UPDATE_ITEM -> "handle_monday_update_item"
      [] n = LIST_BOARDS -> "handle_monday_list_boards"
      [] n = LIST_ITEMS_IN_GROUPS -> "handle_monday_list_items_in_groups"
      [] n = LIST_SUBITEMS_IN_ITEMS -> "handle_monday_list_subitems_in_items"
      [] n = GET_ITEM_UPDATES -> "handle_monday_get_item_updates"
      [] n = GET_DOCS -> "handle_monday_get_docs"
      [] n = GET_DOC_CONTENT -> "handle_monday_get_doc_content"
      [] n = CREATE_DOC -> "handle_monday_create_doc"
      [] n = ADD_DOC_BLOCK -> "handle_monday_add_doc_block"
      [] n = GET_ITEM_FILES -> "handle_monday_get_item_files"
      [] OTHER -> CaseDefault

\* tools.py: the match statement of handle_call_tool; a str enum member
\* equals the string that is its value.
Route(n) ==
    CASE n = CREATE_ITEM -> "handle_monday_create_item"
      [] n = GET_BOARD_COLUMNS -> "handle_monday_get_board_columns"
      [] n = GET_BOARD_GROUPS -> "handle_monday_get_board_groups"
      [] n = CREATE_UPDATE -> "handle_monday_create_update_on_item"
      [] n = UPDATE_ITEM -> "handle_monday_update_item"
      [] n = LIST_BOARDS -> "handle_monday_list_boards"
      [] n = LIST_ITEMS_IN_GROUPS -> "handle_monday_list_items_in_groups"
      [] n = LIST_SUBITEMS_IN_ITEMS -> "handle_monday_list_subitems_in_items"
      [] n = GET_ITEM_UPDATES -> "handle_monday_get_item_updates"
      [] n = GET_DOCS -> "handle_monday_get_docs"
      [] n = GET_DOC_CONTENT -> "handle_monday_get_doc_content"
      [] n = CREATE_DOC -> "handle_monday_create_doc"
      [] n = ADD_DOC_BLOCK -> "handle_monday_add_doc_block"
      [] n = GET_ITEM_FILES -> "handle_monday_get_item_files"
      [] n = GET_UPDATE_FILES -> "handle_monday_get_update_files"
      [] OTHER -> CaseDefault

\* The exceptions of the model.
NoError == "none"
UnknownTool == "ValueError: Undefined behaviour for tool"
AttributeError == "AttributeError"
KeyError == "KeyError"
TypeError == "TypeError"
TransportError == "TransportError"

---------------------------------------------------------------------------
(* mcp.types.TextContent and the result of a handler: the content blocks  *)
(* it returns, or the exception it lets escape.                            *)

TextContent(text) == [type |-> "text", text |-> text]

Returns(blocks) == [error |-> NoError, blocks |-> blocks]
Raises(e) == [error |-> e, blocks |-> <<>>]

\* What response["data"][key] evaluates to in the guard
\*   not response or "data" not in response or not response["data"][key]
\* of the handlers: "absent" when the guard is true, "found" with the value when
\* it is false, and the exception the subscripts raise: None["k"] is a TypeError,
\* {}["k"] a KeyError.
TopLevel(resp, key) ==
    IF ~Truthy(resp) THEN [error |-> NoError, found |-> FALSE, value |-> NoneVal]
    ELSE IF ~HasKey(resp, "data") THEN [error |-> NoError, found |-> FALSE, value |-> NoneVal]
    ELSE LET data == resp.m["data"] IN
         IF data.t # "dict" THEN [error |-> TypeError, found |-> FALSE, value |-> NoneVal]
         ELSE IF ~HasKey(data, key) THEN [error |-> KeyError, found |-> FALSE, value |-> NoneVal]
         ELSE IF ~Truthy(data.m[key]) THEN [error |-> NoError, found |-> FALSE, value |-> NoneVal]
         ELSE [error |-> NoError, found |-> TRUE, value |-> data.m[key]]

---------------------------------------------------------------------------
(* document.py: handle_monday_get_item_files.                              *)

get_item_files_query(itemId) ==
    <<"query { items (ids: ">> \o Render(itemId)
    \o <<") { name column_values { id title type value text } assets { id name url public_url file_extension file_size created_at uploaded_by { id name } } } }">>

\* The JSON texts a column value holds in the model.
JsonOneFile == <<"{\"files\": [{\"name\": \"a.pdf\", \"url\": \"u/a\"}]}">>
JsonTwoFiles == <<"{\"files\": [{\"name\": \"b.png\", \"url\": \"u/b\"}, {\"name\": \"c.txt\", \"url\": \"u/c\"}]}">>
JsonNoFiles == <<"{\"other\": 1}">>
JsonNumber == <<"7">>
JsonNull == <<"null">>
JsonEmptyList == <<"[]">>
JsonInvalid == <<"{not json">>
JsonText == <<"\"hello\"">>

FileDict(n, u) == DictVal([k \in {"name", "url"} |->
                     IF k = "name" THEN StrVal(<<n>>) ELSE StrVal(<<u>>)])

JSONDecodeError == "JSONDecodeError"

\* json.loads on those texts: the value parsed, or JSONDecodeError.
json_loads(s) ==
    CASE s = JsonOneFile ->
           [error |-> NoError,
            value |-> DictVal([k \in {"files"} |-> ListVal(<<FileDict("a.pdf", "u/a")>>)])]
      [] s = JsonTwoFiles ->
           [error |-> NoError,
            value |-> DictVal([k \in {"files"} |->
                        ListVal(<<FileDict("b.png", "u/b"), FileDict("c.txt", "u/c")>>)])]
      [] s = JsonNoFiles ->
           [error |-> NoError, value |-> DictVal([k \in {"other"} |-> IntVal(1)])]
      [] s = JsonNumber -> [error |-> NoError, value |-> IntVal(7)]
      [] s = JsonNull -> [error |-> NoError, value |-> NoneVal]
      [] s = JsonEmptyList -> [error |-> NoError, value |-> ListVal(<<>>)]
      [] s = JsonText -> [error |-> NoError, value |-> StrVal(<<"hello">>)]
      [] OTHER -> [error |-> JSONDecodeError, value |-> NoneVal]

\* "files" in file_data: a key test on a dict, a membership test on a list, a
\* substring test on a str, and a TypeError on an int or None.
FilesIn(file_data) ==
    CASE file_data.t = "dict" -> [error |-> NoError, yes |-> HasKey(file_data, "files")]
      [] file_data.t = "list" -> [error |-> NoError, yes |-> FALSE]
      [] file_data.t = "str"  -> [error |-> NoError, yes |-> FALSE]
      [] OTHER                -> [error |-> TypeError, yes |-> FALSE]

file_info(file, column) ==
    <<"File Name: ">> \o Render(Get(file, "name")) \o <<"\nURL: ">>
    \o Render(Get(file, "url")) \o <<"\nColumn: ">> \o Render(Get(column, "title"))
    \o <<"\n\n">>

\* The body of the loop over item.get("column_values", []): the file_info
\* entries one column appends to file_columns, or the exception that escapes
\* the try (JSONDecodeError and KeyError are caught, and the column adds nothing).
ColumnFiles(column) ==
    IF ~(Get(column, "type") = StrVal(<<"file">>) /\ Truthy(Get(column, "value")))
    THEN [error |-> NoError, infos |-> <<>>]
    ELSE LET parsed == json_loads(Get(column, "value").s) IN
         IF parsed.error = JSONDecodeError THEN [error |-> NoError, infos |-> <<>>]
         ELSE LET has == FilesIn(parsed.value) IN
              IF has.error # NoError THEN [error |-> has.error, infos |-> <<>>]
              ELSE IF ~has.yes THEN [error |-> NoError, infos |-> <<>>]
              ELSE LET files == parsed.value.m["files"].l IN
                   [error |-> NoError,
                    infos |-> [i \in 1..Len(files) |-> file_info(files[i], column)]]

\* The loop over the columns: file_columns, or the first exception to escape.
RECURSIVE FileColumns(_)
FileColumns(columns) ==
    IF columns = <<>> THEN [error |-> NoError, infos |-> <<>>]
    ELSE LET first == ColumnFiles(Head(columns)) IN
         IF first.error # NoError THEN first
         ELSE LET rest == FileColumns(Tail(columns)) IN
              IF rest.error # NoError THEN rest
              ELSE [error |-> NoError, infos |-> first.infos \o rest.infos]

\* asset_info of one asset.
asset_info(asset) ==
    <<"Asset Name: ">> \o Render(Get(asset, "name")) \o <<"\nURL: ">>
    \o Render(Get(asset, "url")) \o <<"\n">>
    \o (IF Truthy(Get(asset, "public_url"))
        THEN <<"Public URL: ">> \o Render(Get(asset, "public_url")) \o <<"\n">>
        ELSE <<>>)
    \o <<"Type: ">> \o Render(Get(asset, "file_extension"))
    \o <<"\nSize: ">> \o Render(Get(asset, "file_size")) \o <<" bytes\nCreated: ">>
    \o Render(Get(asset, "created_at")) \o <<"\n\n">>

\* An asset list rendered last asset first.
AssetFilesReversed(assets) ==
    [i \in 1..Len(assets) |-> asset_info(assets[Len(assets) + 1 - i])]

\* asset_files: one asset_info per asset, in the order of the list.
AssetFiles(assets) == [i \in 1..Len(assets) |-> asset_info(assets[i])]

\* item.get(key, []) for the two lists of an item or update.
ListOf(entity, key) == GetDefault(entity, key, ListVal(<<>>)).l

get_item_files_result(itemId, resp) ==
    LET top == TopLevel(resp, "items") IN
    IF top.error # NoError THEN Raises(top.error)
    ELSE IF ~top.found
    THEN Returns(<<TextContent(<<"No items found with ID ">> \o Render(itemId) \o <<".">>)>>)
    ELSE LET item == top.value.l[1]
             file_columns == FileColumns(ListOf(item, "column_values"))
             asset_files == AssetFiles(ListOf(item, "assets"))
         IN  IF file_columns.error # NoError THEN Raises(file_columns.error)
             ELSE IF file_columns.infos = <<>> /\ asset_files = <<>>
             THEN Returns(<<TextContent(<<"No files found for item ">> \o Render(itemId)
                                         \o <<".">>)>>)
             ELSE Returns(<<TextContent(
                    <<"Files attached to item ">> \o Render(itemId) \o <<" (">>
                    \o Render(Get(item, "name")) \o <<"):\n\n">>
                    \o (IF file_columns.infos # <<>>
                        THEN <<"FILES IN COLUMNS:\n">> \o Flatten(file_columns.infos)
                             \o <<"\n">>
                        ELSE <<>>)
                    \o (IF asset_files # <<>>
                        THEN <<"ASSETS:\n">> \o Flatten(asset_files)
                        ELSE <<>>))>>)

---------------------------------------------------------------------------
(* document.py: handle_monday_get_update_files.                            *)

get_update_files_query(updateId) ==
    <<"query { updates (ids: ">> \o Render(updateId)
    \o <<") { id body created_at assets { id name url public_url file_extension file_size created_at } } }">>

get_update_files_result(updateId, resp) ==
    LET top == TopLevel(resp, "updates") IN
    IF top.error # NoError THEN Raises(top.error)
    ELSE IF ~top.found
    THEN Returns(<<TextContent(<<"No update found with ID ">> \o Render(updateId)
                                \o <<".">>)>>)
    ELSE LET update == top.value.l[1]
             asset_files == AssetFiles(ListOf(update, "assets"))
         IN  IF asset_files = <<>>
             THEN Returns(<<TextContent(<<"No files found for update ">> \o Render(updateId)
                                         \o <<".">>)>>)
             ELSE Returns(<<TextContent(<<"Files attached to update ">> \o Render(updateId)
                                         \o <<":\n\n">> \o Flatten(asset_files))>>)

---------------------------------------------------------------------------
(* document.py: handle_monday_get_docs.                                    *)

\* The default of the limit parameter, and of arguments.get("limit", 25).
DefaultLimit == 25

\* A folder filter that is rendered whether or not a folder id was given.
folder_filter_always(folder_id) ==
    <<"filter: {folder_id: ">> \o Render(folder_id) \o <<"}">>

\* A folder filter that falls back on the folder of the invocation kept before.
folder_filter_sticky(folder_id) ==
    LET f == IF Truthy(folder_id) THEN folder_id
             ELSE IF prev.set /\ prev.name = GET_DOCS /\ prev.arguments # NoneVal
                  THEN Get(prev.arguments, "folder_id")
                  ELSE NoneVal
    IN  IF Truthy(f) THEN <<"filter: {folder_id: ">> \o Render(f) \o <<"}">> ELSE <<>>

folder_filter(folder_id) ==
    IF Truthy(folder_id)
    THEN <<"filter: {folder_id: ">> \o Render(folder_id) \o <<"}">>
    ELSE <<>>

get_docs_query(limit, folder_id) ==
    <<"query { docs (", "limit: ">> \o Render(limit) \o <<" ">> \o folder_filter(folder_id)
    \o <<") { id name created_at workspace_id folder_id user_id } }">>

doc_text(doc) ==
    <<"Document ID: ">> \o Render(doc.m["id"]) \o <<"\nName: ">> \o Render(doc.m["name"])
    \o <<"\nCreated: ">> \o Render(doc.m["created_at"])
    \o <<"\nWorkspace ID: ">> \o Render(doc.m["workspace_id"])
    \o <<"\nFolder ID: ">> \o Render(GetDefault(doc, "folder_id", StrVal(<<"None">>)))
    \o <<"\nUser ID: ">> \o Render(doc.m["user_id"]) \o <<"\n\n">>

\* formatted_docs: one doc_text per document, in the order of the list.
formatted_docs(docs) == [i \in 1..Len(docs) |-> doc_text(docs[i])]

\* A get-docs handler that returns one content block per document.
get_docs_result_per_doc(resp) ==
    LET top == TopLevel(resp, "docs") IN
    IF top.error # NoError THEN Raises(top.error)
    ELSE IF ~top.found THEN Returns(<<TextContent(<<"No documents found.">>)>>)
    ELSE Returns([i \in 1..Len(top.value.l) |-> TextContent(doc_text(top.value.l[i]))])

get_docs_result(resp) ==
    LET top == TopLevel(resp, "docs") IN
    IF top.error # NoError THEN Raises(top.error)
    ELSE IF ~top.found THEN Returns(<<TextContent(<<"No documents found.">>)>>)
    ELSE Returns(<<TextContent(<<"Documents:\n\n">>
                               \o Flatten(formatted_docs(top.value.l)))>>)

---------------------------------------------------------------------------
(* document.py: handle_monday_get_doc_content.                             *)

get_doc_content_query(doc_id) ==
    <<"query { docs (ids: [">> \o Render(doc_id) \o <<"]) { id name content } }">>

get_doc_content_result(doc_id, resp) ==
    LET top == TopLevel(resp, "docs") IN
    IF top.error # NoError THEN Raises(top.error)
    ELSE IF ~top.found
    THEN Returns(<<TextContent(<<"Document with ID ">> \o Render(doc_id)
                                \o <<" not found.">>)>>)
    ELSE LET doc == top.value.l[1] IN
         Returns(<<TextContent(<<"Document ID: ">> \o Render(doc.m["id"]) \o <<"\nName: ">>
                               \o Render(doc.m["name"]) \o <<"\n\nContent:\n">>
                               \o Render(doc.m["content"]))>>)

---------------------------------------------------------------------------
(* document.py: handle_monday_create_doc and handle_monday_add_doc_block.  *)

Quote == "\""
Backslash == "\\"

\* content.replace('"', '\\"') on the characters of a str.
RECURSIVE replace_quotes(_)
replace_quotes(s) ==
    IF s = <<>> THEN <<>>
    ELSE (IF Head(s) = Quote THEN <<Backslash, Quote>> ELSE <<Head(s)>>)
         \o replace_quotes(Tail(s))

\* escaped_content, or the AttributeError of calling replace on a value that
\* is no str (an absent argument is None).
escaped_content(content) ==
    IF content.t = "str"
    THEN [error |-> NoError, s |-> replace_quotes(content.s)]
    ELSE [error |-> AttributeError, s |-> <<>>]

folder_param(folder_id) ==
    IF Truthy(folder_id) THEN <<", folder_id: ">> \o Render(folder_id) ELSE <<>>

\* The mutation of create_doc: the name literal and the content literal each
\* stand between two Quote pieces of the template.
create_doc_query(title, content, folder_id) ==
    LET escaped == escaped_content(content) IN
    IF escaped.error # NoError THEN [error |-> escaped.error, doc |-> <<>>]
    ELSE [error |-> NoError,
          doc |-> <<"mutation { create_doc ( name: ", Quote>> \o Render(title)
                  \o <<Quote, ", content: ", Quote>> \o escaped.s \o <<Quote>>
                  \o folder_param(folder_id) \o <<" ) { id name } }">>]

\* constants.py: the base URL of the workspace.
MONDAY_WORKSPACE_URL == "{MONDAY_WORKSPACE_URL}"

create_doc_result(resp) ==
    LET top == TopLevel(resp, "create_doc") IN
    IF top.error # NoError THEN Raises(top.error)
    ELSE IF ~top.found THEN Returns(<<TextContent(<<"Failed to create document.">>)>>)
    ELSE LET created_doc == top.value IN
         Returns(<<TextContent(<<"Document created successfully!\nTitle: ">>
                               \o Render(created_doc.m["name"]) \o <<"\nID: ">>
                               \o Render(created_doc.m["id"]) \o <<"\nURL: ">>
                               \o <<MONDAY_WORKSPACE_URL, "/docs/d/">>
                               \o Render(created_doc.m["id"]))>>)

after_block_param(after_block_id) ==
    IF Truthy(after_block_id)
    THEN <<", after_block_id: ">> \o Render(after_block_id)
    ELSE <<>>

add_doc_block_query(doc_id, block_type, content, after_block_id) ==
    LET escaped == escaped_content(content) IN
    IF escaped.error # NoError THEN [error |-> escaped.error, doc |-> <<>>]
    ELSE [error |-> NoError,
          doc |-> <<"mutation { add_doc_block ( doc_id: ">> \o Render(doc_id)
                  \o <<", type: ">> \o Render(block_type)
                  \o <<", content: ", Quote>> \o escaped.s \o <<Quote>>
                  \o after_block_param(after_block_id) \o <<" ) { id type } }">>]

add_doc_block_result(resp) ==
    LET top == TopLevel(resp, "add_doc_block") IN
    IF top.error # NoError THEN Raises(top.error)
    ELSE IF ~top.found THEN Returns(<<TextContent(<<"Failed to add block to document.">>)>>)
    ELSE LET created_block == top.value IN
         Returns(<<TextContent(<<"Block added successfully!\nID: ">>
                               \o Render(created_block.m["id"]) \o <<"\nType: ">>
                               \o Render(created_block.m["type"]))>>)

---------------------------------------------------------------------------
(* board.py and item.py: the handlers of the board and item tools, and     *)
(* handle_monday_get_item_updates, which tools.py imports from document.py *)
(* and document.py does not define.  Each builds one document from its     *)
(* arguments, executes it once and renders the response as one text block. *)

BoardItemHandlers ==
    {"handle_monday_create_item", "handle_monday_get_board_columns",
     "handle_monday_get_board_groups", "handle_monday_create_update_on_item",
     "handle_monday_update_item", "handle_monday_list_boards",
     "handle_monday_list_items_in_groups", "handle_monday_list_subitems_in_items",
     "handle_monday_get_item_updates"}

board_item_query(h, args) ==
    <<"document of ", h>>
    \o Flatten([i \in 1..Len(args) |-> <<" ">> \o Render(args[i])])

board_item_result(h, resp) ==
    IF ~Truthy(resp) \/ ~HasKey(resp, "data")
    THEN Returns(<<TextContent(<<"nothing found by ", h>>)>>)
    ELSE Returns(<<TextContent(<<"result of ", h>>)>>)

---------------------------------------------------------------------------
(* tools.py: handle_call_tool, from the match statement to the call of     *)
(* monday_client.custom._query inside the handler.                         *)

\* A dispatcher whose list-boards case reads the mapping too.
ReadsArgumentsEveryCase(h) == h # CaseDefault

\* arguments.get(...) is evaluated in every case but that of list-boards.
ReadsArguments(h) == h # "handle_monday_list_boards"

\* The call of the handler: the arguments.get(...) of its case, and the
\* document the handler builds from them (or the exception building raises).
Build(h, a) ==
    CASE h = "handle_monday_get_docs" ->
           [error |-> NoError,
            doc |-> get_docs_query(GetDefault(a, "limit", IntVal(DefaultLimit)),
                                   Get(a, "folder_id"))]
      [] h = "handle_monday_get_doc_content" ->
           [error |-> NoError, doc |-> get_doc_content_query(Get(a, "doc_id"))]
      [] h = "handle_monday_create_doc" ->
           create_doc_query(Get(a, "title"), Get(a, "content"), Get(a, "folder_id"))
      [] h = "handle_monday_add_doc_block" ->
           add_doc_block_query(Get(a, "doc_id"), Get(a, "block_type"), Get(a, "content"),
                               Get(a, "after_block_id"))
      [] h = "handle_monday_get_item_files" ->
           [error |-> NoError, doc |-> get_item_files_query(Get(a, "itemId"))]
      [] h = "handle_monday_get_update_files" ->
           [error |-> NoError, doc |-> get_update_files_query(Get(a, "updateId"))]
      [] h = "handle_monday_list_boards" ->
           [error |-> NoError, doc |-> board_item_query(h, <<>>)]
      [] h = "handle_monday_get_item_updates" ->
           [error |-> NoError,
            doc |-> board_item_query(h, <<Get(a, "itemId"),
                                          GetDefault(a, "limit", IntVal(DefaultLimit))>>)]
      [] h = "handle_monday_create_item" ->
           [error |-> NoError,
            doc |-> board_item_query(h, <<Get(a, "boardId"), Get(a, "itemTitle"),
                                          Get(a, "groupId"), Get(a, "parentItemId")>>)]
      [] h = "handle_monday_update_item" ->
           [error |-> NoError,
            doc |-> board_item_query(h, <<Get(a, "boardId"), Get(a, "itemId")>>)]
      [] h = "handle_monday_create_update_on_item" ->
           [error |-> NoError,
            doc |-> board_item_query(h, <<Get(a, "itemId"), Get(a, "updateText")>>)]
      [] h = "handle_monday_list_items_in_groups" ->
           [error |-> NoError,
            doc |-> board_item_query(h, <<Get(a, "boardId"), Get(a, "limit"),
                                          Get(a, "cursor")>>)]
      [] h = "handle_monday_list_subitems_in_items" ->
           [error |-> NoError, doc |-> board_item_query(h, <<>>)]
      [] OTHER ->
           [error |-> NoError, doc |-> board_item_query(h, <<Get(a, "boardId")>>)]

\* The required list of the descriptor named n.
Required(n) ==
    UNION {ServerTools[i].required : i \in {j \in DOMAIN ServerTools : ServerTools[j].name = n}}

\* A dispatcher that subscripts the mapping, arguments["key"], for the
\* required arguments: a missing one raises KeyError before the handler runs.
DispatchSubscript(n, a) ==
    LET h == Route(n) IN
    IF h = CaseDefault THEN [error |-> UnknownTool, doc |-> <<>>]
    ELSE IF ReadsArguments(h) /\ a = NoneVal THEN [error |-> AttributeError, doc |-> <<>>]
    ELSE IF a # NoneVal /\ \E k \in Required(n) : ~HasKey(a, k)
    THEN [error |-> KeyError, doc |-> <<>>]
    ELSE Build(h, a)

\* A dispatcher whose default case calls the list-boards handler.
DispatchDefaultHandler(n, a) ==
    LET h == Route(n) IN
    IF h = CaseDefault THEN Build("handle_monday_list_boards", a)
    ELSE IF ReadsArguments(h) /\ a = NoneVal THEN [error |-> AttributeError, doc |-> <<>>]
    ELSE Build(h, a)

\* The try block up to the Gateway call: the exception raised before it (by
\* the default case, by arguments.get on None, or by the builder), or the
\* document that is executed.
Dispatch(n, a) ==
    LET h == Route(n) IN
    IF h = CaseDefault THEN [error |-> UnknownTool, doc |-> <<>>]
    ELSE IF ReadsArguments(h) /\ a = NoneVal THEN [error |-> AttributeError, doc |-> <<>>]
    ELSE Build(h, a)

\* The rest of the handler, after _query returned resp.
Normalize(h, a, resp) ==
    CASE h = "handle_monday_get_docs" -> get_docs_result(resp)
      [] h = "handle_monday_get_doc_content" ->
           get_doc_content_result(Get(a, "doc_id"), resp)
      [] h = "handle_monday_create_doc" -> create_doc_result(resp)
      [] h = "handle_monday_add_doc_block" -> add_doc_block_result(resp)
      [] h = "handle_monday_get_item_files" ->
           get_item_files_result(Get(a, "itemId"), resp)
      [] h = "handle_monday_get_update_files" ->
           get_update_files_result(Get(a, "updateId"), resp)
      [] OTHER -> board_item_result(h, resp)

---------------------------------------------------------------------------
(* The inputs: what the host invokes, and what the Gateway answers.        *)

\* The members of ToolName.
ToolNames ==
    {LIST_BOARDS, GET_BOARD_GROUPS, GET_BOARD_COLUMNS, CREATE_ITEM, UPDATE_ITEM,
     CREATE_UPDATE, LIST_ITEMS_IN_GROUPS, LIST_SUBITEMS_IN_ITEMS, GET_ITEM_UPDATES,
     GET_DOCS, GET_DOC_CONTENT, CREATE_DOC, ADD_DOC_BLOCK, GET_ITEM_FILES,
     GET_UPDATE_FILES}

\* Names no ToolName has: the names without their prefix, another case, a
\* tool that does not exist, the empty name.
OtherNames ==
    {"list-boards", "get-board-groups", "get-board-columns", "create-item",
     "update-item", "create-update", "list-items-in-groups", "list-subitems-in-items",
     "get-item-updates", "get-docs", "get-doc-content", "create-doc", "add-doc-block",
     "get-item-files", "get-update-files",
     "MONDAY-LIST-BOARDS", "monday-delete-board", ""}

InvokedNames == ToolNames \cup OtherNames

Absent == [t |-> "absent"]

\* The dict with the keys of f whose value is not Absent.
ArgsOf(f) == DictVal([k \in {j \in DOMAIN f : f[j] # Absent} |-> f[k]])

Chars == {"a", Quote, Backslash}
Strings == {StrVal(s) : s \in SeqsUpTo(Chars, MaxStrLen)}

Id7 == StrVal(<<"7">>)
OptionalIds == {Absent, NoneVal, StrVal(<<>>), Id7, IntVal(0)}
RequiredIds == {Absent, Id7}
Limits == {Absent, NoneVal, IntVal(0), IntVal(3), IntVal(100)}
BlockTypes == {Absent, StrVal(<<"normal_text">>)}

TypicalArgs ==
    ArgsOf([boardId |-> Id7, itemId |-> Id7, itemTitle |-> StrVal(<<"a">>),
            groupId |-> StrVal(<<"topics">>), updateText |-> StrVal(<<"a">>)])

ArgsFor(n) ==
    {NoneVal} \cup
    CASE n = GET_DOCS ->
           {ArgsOf([limit |-> l, folder_id |-> f]) : l \in Limits, f \in OptionalIds}
      [] n = GET_DOC_CONTENT -> {ArgsOf([doc_id |-> d]) : d \in RequiredIds}
      [] n = CREATE_DOC ->
           {ArgsOf([title |-> t, content |-> c, folder_id |-> f]) :
              t \in Strings \cup {Absent}, c \in Strings \cup {Absent}, f \in OptionalIds}
      [] n = ADD_DOC_BLOCK ->
           {ArgsOf([doc_id |-> d, block_type |-> b, content |-> c, after_block_id |-> x]) :
              d \in RequiredIds, b \in BlockTypes, c \in Strings \cup {Absent},
              x \in OptionalIds}
      [] n = GET_ITEM_FILES -> {ArgsOf([itemId |-> d]) : d \in RequiredIds}
      [] n = GET_UPDATE_FILES -> {ArgsOf([updateId |-> d]) : d \in RequiredIds}
      [] OTHER -> {EmptyDict, TypicalArgs}

\* A smaller choice of arguments, for runs that keep an earlier invocation.
FewArgsFor(n) ==
    {NoneVal} \cup
    CASE n = GET_DOCS ->
           {ArgsOf([limit |-> l, folder_id |-> f]) :
              l \in {Absent, IntVal(3)}, f \in {Absent, Id7}}
      [] n = GET_DOC_CONTENT -> {ArgsOf([doc_id |-> d]) : d \in RequiredIds}
      [] n = CREATE_DOC ->
           {ArgsOf([title |-> StrVal(<<"a">>), content |-> c, folder_id |-> f]) :
              c \in {Absent, StrVal(<<"a">>), StrVal(<<Quote>>)}, f \in {Absent, Id7}}
      [] n = ADD_DOC_BLOCK ->
           {ArgsOf([doc_id |-> Id7, block_type |-> StrVal(<<"normal_text">>),
                    content |-> c, after_block_id |-> x]) :
              c \in {StrVal(<<"a">>), StrVal(<<Quote>>)}, x \in {Absent, Id7}}
      [] n = GET_ITEM_FILES -> {ArgsOf([itemId |-> d]) : d \in RequiredIds}
      [] n = GET_UPDATE_FILES -> {ArgsOf([updateId |-> d]) : d \in RequiredIds}
      [] OTHER -> {EmptyDict, TypicalArgs}

\* {"data": {key: v}}
Data(key, v) == DictVal([k \in {"data"} |-> DictVal([j \in {key} |-> v])])

\* The responses without the entity asked for: None, {}, a response with
\* errors and no data, data that is null, data without the key, and the key
\* holding null or an empty list.
EmptyResponses(key) ==
    {NoneVal, EmptyDict,
     DictVal([k \in {"errors"} |-> ListVal(<<StrVal(<<"boom">>)>>)]),
     DictVal([k \in {"data"} |-> NoneVal]),
     DictVal([k \in {"data"} |-> EmptyDict]),
     Data(key, NoneVal), Data(key, ListVal(<<>>))}

Column(type, title, value) ==
    DictVal([k \in {"id", "title", "type", "value", "text"} |->
               CASE k = "type" -> StrVal(<<type>>)
                 [] k = "title" -> StrVal(<<title>>)
                 [] k = "value" -> value
                 [] OTHER -> StrVal(<<"x">>)])

Columns ==
    {Column("file", "Docs", StrVal(JsonOneFile)),
     Column("file", "Pics", StrVal(JsonTwoFiles)),
     Column("file", "Other", StrVal(JsonNoFiles)),
     Column("file", "Broken", StrVal(JsonInvalid)),
     Column("file", "Number", StrVal(JsonNumber)),
     Column("file", "Null", StrVal(JsonNull)),
     Column("file", "List", StrVal(JsonEmptyList)),
     Column("file", "Empty", NoneVal),
     Column("text", "Notes", StrVal(JsonText))}

Asset(n, public_url) ==
    DictVal([k \in {"id", "name", "url", "public_url", "file_extension", "file_size",
                    "created_at"} |->
               CASE k = "name" -> StrVal(<<n>>)
                 [] k = "public_url" -> public_url
                 [] k = "file_size" -> IntVal(1024)
                 [] OTHER -> StrVal(<<k, " of ", n>>)])

Assets == {Asset("spec.pdf", NoneVal), Asset("logo.png", StrVal(<<"https://p/logo">>))}

Item(columns, assets) ==
    DictVal([k \in {"name", "column_values", "assets"} |->
               CASE k = "name" -> StrVal(<<"Task">>)
                 [] k = "column_values" -> ListVal(columns)
                 [] OTHER -> ListVal(assets)])

Update(assets) ==
    DictVal([k \in {"id", "body", "created_at", "assets"} |->
               IF k = "assets" THEN ListVal(assets) ELSE StrVal(<<k>>)])

Doc(id, folder) ==
    DictVal([k \in {"id", "name", "created_at", "workspace_id", "folder_id", "user_id",
                    "content"} |->
               CASE k = "id" -> StrVal(<<id>>)
                 [] k = "folder_id" -> folder
                 [] OTHER -> StrVal(<<k, " of ", id>>)])

Docs == {Doc("11", NoneVal), Doc("22", Id7)}

Created(key2) ==
    DictVal([k \in {"id", key2} |-> IF k = "id" THEN StrVal(<<"55">>) ELSE StrVal(<<"Plan">>)])

ResponsesFor(h) ==
    CASE h = "handle_monday_get_item_files" ->
           EmptyResponses("items") \cup
           {Data("items", ListVal(<<Item(c, a)>>)) :
              c \in SeqsUpTo(Columns, MaxCols), a \in SeqsUpTo(Assets, MaxAssets)}
      [] h = "handle_monday_get_update_files" ->
           EmptyResponses("updates") \cup
           {Data("updates", ListVal(<<Update(a)>>)) : a \in SeqsUpTo(Assets, MaxAssets)}
      [] h = "handle_monday_get_docs" ->
           EmptyResponses("docs") \cup
           {Data("docs", ListVal(d)) : d \in SeqsUpTo(Docs, MaxDocs)}
      [] h = "handle_monday_get_doc_content" ->
           EmptyResponses("docs") \cup {Data("docs", ListVal(<<d>>)) : d \in Docs}
      [] h = "handle_monday_create_doc" ->
           EmptyResponses("create_doc") \cup {Data("create_doc", Created("name"))}
      [] h = "handle_monday_add_doc_block" ->
           EmptyResponses("add_doc_block") \cup {Data("add_doc_block", Created("type"))}
      [] OTHER -> {NoneVal, EmptyDict, Data("boards", ListVal(<<>>))}

FewResponsesFor(h) ==
    CASE h = "handle_monday_get_item_files" ->
           {NoneVal, Data("items", ListVal(<<>>)),
            Data("items", ListVal(<<Item(<<>>, <<Asset("spec.pdf", NoneVal)>>)>>))}
      [] h = "handle_monday_get_update_files" ->
           {NoneVal, Data("updates", ListVal(<<Update(<<Asset("spec.pdf", NoneVal)>>)>>))}
      [] h = "handle_monday_get_docs" ->
           {NoneVal, DictVal([k \in {"data"} |-> EmptyDict]),
            Data("docs", ListVal(<<Doc("11", NoneVal)>>))}
      [] h = "handle_monday_get_doc_content" ->
           {NoneVal, Data("docs", ListVal(<<Doc("11", NoneVal)>>))}
      [] h = "handle_monday_create_doc" ->
           {NoneVal, Data("create_doc", Created("name"))}
      [] h = "handle_monday_add_doc_block" ->
           {NoneVal, Data("add_doc_block", Created("type"))}
      [] OTHER -> {NoneVal, Data("boards", ListVal(<<>>))}

---------------------------------------------------------------------------
(* The state machine of one server: the host lists the tools and invokes   *)
(* them one at a time.                                                      *)

NoResponse == [t |-> "unset"]
GatewayRaised == [t |-> "raised"]
NoOutcome == [kind |-> "none"]
NoPrev == [set |-> FALSE]

Init ==
    /\ pc = "idle"
    /\ name = ""
    /\ arguments = NoneVal
    /\ handler = ""
    /\ document = <<>>
    /\ calls = 0
    /\ response = NoResponse
    /\ raised = NoError
    /\ logged = <<>>
    /\ outcome = NoOutcome
    /\ listed = <<>>
    /\ prev = NoPrev

\* handle_list_tools.
ListTools ==
    /\ pc \in {"idle", "done"}
    /\ listed' = ServerTools
    /\ UNCHANGED <<pc, name, arguments, handler, document, calls, response, raised,
                   logged, outcome, prev>>

\* handle_call_tool(n, a), up to the call of _query or to the exception
\* raised before it.
Invoke(n, a) ==
    /\ pc = "idle"
    /\ name' = n
    /\ arguments' = a
    /\ handler' = Route(n)
    /\ LET d == Dispatch(n, a) IN
       IF d.error # NoError
       THEN /\ pc' = "except"
            /\ raised' = d.error
            /\ document' = <<>>
            /\ calls' = 0
       ELSE /\ pc' = "executing"
            /\ raised' = NoError
            /\ document' = d.doc
            /\ calls' = calls + 1
    /\ UNCHANGED <<response, logged, outcome, listed, prev>>

\* _query returns r, and the handler renders it or raises.
GatewayReturns(r) ==
    /\ pc = "executing"
    /\ response' = r
    /\ LET res == Normalize(handler, arguments, r) IN
       IF res.error # NoError
       THEN /\ pc' = "except"
            /\ raised' = res.error
            /\ outcome' = outcome
       ELSE /\ pc' = "done"
            /\ raised' = raised
            /\ outcome' = [kind |-> "content", blocks |-> res.blocks]
    /\ UNCHANGED <<name, arguments, handler, document, calls, logged, listed, prev>>

\* A Gateway failure after which the handler calls _query again.
GatewayRaisesAndRetries ==
    /\ pc = "executing"
    /\ calls < 3
    /\ calls' = calls + 1
    /\ response' = GatewayRaised
    /\ UNCHANGED <<pc, name, arguments, handler, document, raised, logged, outcome,
                   listed, prev>>

\* _query raises: no handler catches it, so it reaches the except clause.
GatewayRaises ==
    /\ pc = "executing"
    /\ response' = GatewayRaised
    /\ raised' = TransportError
    /\ pc' = "except"
    /\ UNCHANGED <<name, arguments, handler, document, calls, logged, outcome, listed,
                   prev>>

\* except Exception as e: logger.error(f"Error calling tool {name}: {e}")
LogError ==
    /\ pc = "except"
    /\ logged' = Append(logged, [tool |-> name, error |-> raised])
    /\ pc' = "logged"
    /\ UNCHANGED <<name, arguments, handler, document, calls, response, raised, outcome,
                   listed, prev>>

\* An except clause that ends without raise: the coroutine returns None.
ReraiseSwallowed ==
    /\ pc = "logged"
    /\ outcome' = [kind |-> "content", blocks |-> <<>>]
    /\ pc' = "done"
    /\ UNCHANGED <<name, arguments, handler, document, calls, response, raised, logged,
                   listed, prev>>

\* raise
Reraise ==
    /\ pc = "logged"
    /\ outcome' = [kind |-> "raised", error |-> raised]
    /\ pc' = "done"
    /\ UNCHANGED <<name, arguments, handler, document, calls, response, raised, logged,
                   listed, prev>>

\* The host takes the result; nothing of the invocation is kept by the server.
HostCollects ==
    /\ pc = "done"
    /\ pc' = "idle"
    /\ name' = ""
    /\ arguments' = NoneVal
    /\ handler' = ""
    /\ document' = <<>>
    /\ calls' = 0
    /\ response' = NoResponse
    /\ raised' = NoError
    /\ logged' = <<>>
    /\ outcome' = NoOutcome
    /\ UNCHANGED <<listed, prev>>

\* The host takes the result and keeps it, to compare later invocations
\* with it.
Remember ==
    /\ pc = "done"
    /\ prev' = [set |-> TRUE, name |-> name, arguments |-> arguments,
                document |-> document, response |-> response, outcome |-> outcome,
                listed |-> listed]
    /\ pc' = "idle"
    /\ name' = ""
    /\ arguments' = NoneVal
    /\ handler' = ""
    /\ document' = <<>>
    /\ calls' = 0
    /\ response' = NoResponse
    /\ raised' = NoError
    /\ logged' = <<>>
    /\ outcome' = NoOutcome
    /\ UNCHANGED listed

Next ==
    \/ ListTools
    \/ pc = "idle" /\ \E n \in InvokedNames : \E a \in ArgsFor(n) : Invoke(n, a)
    \/ pc = "executing" /\ \E r \in ResponsesFor(handler) : GatewayReturns(r)
    \/ GatewayRaises
    \/ LogError
    \/ Reraise
    \/ HostCollects

Spec == Init /\ [][Next]_vars

NextHist ==
    \/ ListTools
    \/ pc = "idle" /\ \E n \in InvokedNames : \E a \in FewArgsFor(n) : Invoke(n, a)
    \/ pc = "executing" /\ \E r \in FewResponsesFor(handler) : GatewayReturns(r)
    \/ GatewayRaises
    \/ LogError
    \/ Reraise
    \/ HostCollects
    \/ Remember

SpecHist == Init /\ [][NextHist]_vars

---------------------------------------------------------------------------
(* The properties.                                                         *)

RegisteredNames == {ServerTools[i].name : i \in DOMAIN ServerTools}

Raised(e) == [kind |-> "raised", error |-> e]

\* C1: an invocation whose tool name is not a registered name, whatever its
\* argument mapping, fails with the unknown-tool error, and at no point of
\* it is a document built or a Gateway call made.
C1_UnknownToolBeforeGateway ==
    (pc # "idle" /\ name \notin RegisteredNames) =>
        /\ calls = 0
        /\ document = <<>>
        /\ pc # "executing"
        /\ raised = UnknownTool
        /\ outcome.kind # "content"
        /\ pc = "done" => outcome = Raised(UnknownTool)

C1_Witness ==
    /\ pc = "done"
    /\ name = "get-docs"
    /\ arguments = TypicalArgs
    /\ outcome = Raised(UnknownTool)
    /\ calls = 0

\* The fifteen names as the specification spells them.
SpecNames ==
    {"list-boards", "get-board-groups", "get-board-columns", "create-item",
     "update-item", "create-update", "list-items-in-groups", "list-subitems-in-items",
     "get-item-updates", "get-docs", "get-doc-content", "create-doc", "add-doc-block",
     "get-item-files", "get-update-files"}

ListedNames == {listed[i].name : i \in DOMAIN listed}

\* C2 as stated: the names listTools returns, and the names invoke accepts,
\* are exactly the fifteen strings list-boards, ..., get-update-files.
C2_Original ==
    /\ listed # <<>> => ListedNames = SpecNames
    /\ pc # "idle" => (handler # CaseDefault <=> name \in SpecNames)

\* C2, amended: the names listTools returns, and the names invoke accepts,
\* are exactly those fifteen strings each prefixed with "monday-".
C2_PrefixedNames ==
    LET Prefixed == {"monday-" \o n : n \in SpecNames} IN
    /\ listed # <<>> => (ListedNames = Prefixed /\ Len(listed) = Cardinality(Prefixed))
    /\ pc # "idle" => (handler # CaseDefault <=> name \in Prefixed)
    /\ pc # "idle" => (raised = UnknownTool <=> name \notin Prefixed)

C2_Witness ==
    /\ listed # <<>>
    /\ pc = "done"
    /\ name = "monday-list-boards"
    /\ outcome.kind = "content"

\* C3: the catalog and the dispatcher agree: the descriptor names are
\* pairwise distinct, a name invoke accepts is the name of exactly one
\* descriptor, and the name of every descriptor is routed to a handler and
\* not to the unknown-tool case.
C3_RegistryMatchesDispatcher ==
    /\ listed # <<>> =>
          \A i, j \in DOMAIN listed : listed[i].name = listed[j].name => i = j
    /\ (pc # "idle" /\ handler # CaseDefault) =>
          Cardinality({i \in DOMAIN ServerTools : ServerTools[i].name = name}) = 1
    /\ (pc # "idle" /\ name \in RegisteredNames) =>
          (handler # CaseDefault /\ raised # UnknownTool)

C3_Witness ==
    /\ listed # <<>>
    /\ pc = "done"
    /\ name = GET_UPDATE_FILES
    /\ handler = "handle_monday_get_update_files"
    /\ outcome.kind = "content"

\* The tools of C4 and the key each expects under data.
ExpectedKey(h) ==
    CASE h = "handle_monday_get_item_files" -> "items"
      [] h = "handle_monday_get_update_files" -> "updates"
      [] OTHER -> "docs"

LookupHandlers ==
    {"handle_monday_get_item_files", "handle_monday_get_update_files",
     "handle_monday_get_docs", "handle_monday_get_doc_content"}

\* The response is a value _query returned.
Answered == response.t \in {"none", "dict"}

\* The response is null or an empty mapping, has no data key, or its data
\* lacks the key or holds null or an empty value for it.
NothingFound(resp, key) ==
    \/ resp.t = "none"
    \/ /\ resp.t = "dict"
       /\ \/ DOMAIN resp.m = {}
          \/ ~HasKey(resp, "data")
          \/ /\ resp.m["data"].t = "dict"
             /\ \/ ~HasKey(resp.m["data"], key)
                \/ ~Truthy(resp.m["data"].m[key])

NotFoundMessage(h, a) ==
    CASE h = "handle_monday_get_item_files" ->
           <<"No items found with ID ">> \o Render(Get(a, "itemId")) \o <<".">>
      [] h = "handle_monday_get_update_files" ->
           <<"No update found with ID ">> \o Render(Get(a, "updateId")) \o <<".">>
      [] h = "handle_monday_get_docs" -> <<"No documents found.">>
      [] OTHER -> <<"Document with ID ">> \o Render(Get(a, "doc_id")) \o <<" not found.">>

\* C4 as stated: for get-item-files, get-update-files, get-docs and
\* get-doc-content, a response that is absent, has no data key, or whose data
\* lacks the expected key or holds an empty or null value for it, yields
\* exactly one text block with the not-found message, and no error is raised.
C4_Original ==
    (handler \in LookupHandlers /\ Answered /\ NothingFound(response, ExpectedKey(handler))) =>
        /\ raised = NoError
        /\ outcome = [kind |-> "content",
                      blocks |-> <<TextContent(NotFoundMessage(handler, arguments))>>]

\* The index of the quote that ends the string literal whose body starts at
\* i: a backslash escapes the piece after it; 0 when the literal never ends.
RECURSIVE LiteralEnd(_, _)
LiteralEnd(doc, i) ==
    IF i > Len(doc) THEN 0
    ELSE IF doc[i] = Backslash THEN LiteralEnd(doc, i + 2)
    ELSE IF doc[i] = Quote THEN i
    ELSE LiteralEnd(doc, i + 1)

\* Every quote of doc strictly between open and close follows a backslash.
QuotesEscaped(doc, open, close) ==
    \A i \in (open + 1)..(close - 1) :
        doc[i] = Quote => (i - 1 > open /\ doc[i - 1] = Backslash)

\* The literal opened by the template's quote at open is ended by the
\* template's quote at close, and by no piece before it.
WellQuoted(doc, open, close) ==
    /\ QuotesEscaped(doc, open, close)
    /\ LiteralEnd(doc, open + 1) = close

\* C5 as stated: in the documents of create-doc and add-doc-block every
\* double quote of the title, the document content and the block content
\* appears escaped, and each quoted literal is ended by the builder's own
\* closing quote and by no character of the value.
C5_Original ==
    /\ (handler = "handle_monday_create_doc" /\ document # <<>>) =>
          LET nameOpen == 2
              nameClose == 3 + Len(Render(Get(arguments, "title")))
              contentOpen == nameClose + 2
              contentClose == Len(document) - 1
                              - Len(folder_param(Get(arguments, "folder_id")))
          IN  /\ WellQuoted(document, nameOpen, nameClose)
              /\ WellQuoted(document, contentOpen, contentClose)
    /\ (handler = "handle_monday_add_doc_block" /\ document # <<>>) =>
          LET contentOpen == 4 + Len(Render(Get(arguments, "doc_id")))
                             + Len(Render(Get(arguments, "block_type")))
              contentClose == Len(document) - 1
                              - Len(after_block_param(Get(arguments, "after_block_id")))
          IN  WellQuoted(document, contentOpen, contentClose)

\* The number of times the template piece that opens a clause occurs in doc.
Clauses(doc, piece) == Cardinality({i \in DOMAIN doc : doc[i] = piece})

\* Some clause opened by piece is followed by the rendering of value.
Carries(doc, piece, value) ==
    LET r == Render(value) IN
    \E i \in DOMAIN doc :
        /\ doc[i] = piece
        /\ i + Len(r) <= Len(doc)
        /\ SubSeq(doc, i + 1, i + Len(r)) = r

\* The optional arguments of C6: the handler, the key of the argument and
\* the template piece that opens its clause.
OptionalClauses ==
    {<<"handle_monday_get_docs", "folder_id", "filter: {folder_id: ">>,
     <<"handle_monday_get_docs", "limit", "limit: ">>,
     <<"handle_monday_create_doc", "folder_id", ", folder_id: ">>,
     <<"handle_monday_add_doc_block", "after_block_id", ", after_block_id: ">>}

\* C6 as stated: in the documents of get-docs, create-doc and add-doc-block
\* an optional argument (folder id, limit, after-block id) that is absent
\* from the mapping has no clause at all, and one that is present has exactly
\* one clause, carrying the supplied value.
C6_Original ==
    \A c \in OptionalClauses :
        (handler = c[1] /\ document # <<>>) =>
            IF HasKey(arguments, c[2])
            THEN /\ Clauses(document, c[3]) = 1
                 /\ Carries(document, c[3], arguments.m[c[2]])
            ELSE Clauses(document, c[3]) = 0

\* C6, amended: the folder id and after-block id clauses are left out when
\* the argument is absent, null, empty or zero, and otherwise occur exactly
\* once, carrying the supplied value; the limit clause of get-docs always
\* occurs exactly once, carrying the supplied value when the mapping has a
\* limit and 25 when it has none.
C6_OptionalClauses ==
    \A c \in OptionalClauses :
        (handler = c[1] /\ document # <<>>) =>
            IF c[2] = "limit"
            THEN /\ Clauses(document, c[3]) = 1
                 /\ Carries(document, c[3],
                            IF HasKey(arguments, "limit") THEN arguments.m["limit"]
                            ELSE IntVal(25))
            ELSE IF Truthy(Get(arguments, c[2]))
            THEN /\ Clauses(document, c[3]) = 1
                 /\ Carries(document, c[3], arguments.m[c[2]])
            ELSE Clauses(document, c[3]) = 0

C6_Witness ==
    /\ pc = "executing"
    /\ handler = "handle_monday_get_docs"
    /\ ~HasKey(arguments, "limit")
    /\ ~HasKey(arguments, "folder_id")
    /\ Clauses(document, "limit: ") = 1
    /\ Clauses(document, "filter: {folder_id: ") = 0

\* sub occurs in text as a run of consecutive pieces.
Occurs(sub, text) ==
    \E i \in 0..(Len(text) - Len(sub)) : SubSeq(text, i + 1, i + Len(sub)) = sub

\* A file column whose value parses to an object with a files entry.
GoodColumn(column) ==
    /\ Get(column, "type") = StrVal(<<"file">>)
    /\ Truthy(Get(column, "value"))
    /\ json_loads(Get(column, "value").s).error = NoError
    /\ json_loads(Get(column, "value").s).value.t = "dict"
    /\ HasKey(json_loads(Get(column, "value").s).value, "files")

\* C7 as stated: in get-item-files, whatever the column values and assets of
\* the item, a file column whose value is not valid JSON or whose parsed
\* value has no files entry raises no error, and the files of every other
\* file column and every asset are rendered.
C7_Original ==
    (/\ handler = "handle_monday_get_item_files"
     /\ Answered
     /\ ~NothingFound(response, "items")
     /\ response.m["data"].t = "dict") =>
        LET item == response.m["data"].m["items"].l[1]
            columns == ListOf(item, "column_values")
            assets == ListOf(item, "assets")
        IN  /\ raised = NoError
            /\ outcome.kind = "content"
            /\ \A i \in DOMAIN assets : Occurs(asset_info(assets[i]), outcome.blocks[1].text)
            /\ \A i \in DOMAIN columns :
                  GoodColumn(columns[i]) =>
                     LET files == json_loads(Get(columns[i], "value").s).value.m["files"].l
                     IN  \A j \in DOMAIN files :
                            Occurs(file_info(files[j], columns[i]), outcome.blocks[1].text)

Logged == <<[tool |-> name, error |-> raised]>>

\* C8: an error raised while building, executing or normalizing is first
\* logged, in one record naming the tool and the error, and then reaches the
\* host unchanged; an invocation in which an error was raised never returns
\* content blocks.
C8_LoggedThenReraised ==
    /\ pc = "except" => (raised # NoError /\ logged = <<>> /\ outcome = NoOutcome)
    /\ pc = "logged" => (raised # NoError /\ logged = Logged /\ outcome = NoOutcome)
    /\ (pc = "done" /\ raised # NoError) => (logged = Logged /\ outcome = Raised(raised))
    /\ outcome.kind = "content" => (raised = NoError /\ logged = <<>>)
    /\ outcome.kind = "raised" => (outcome.error = raised /\ raised # NoError)

C8_Witness ==
    /\ pc = "done"
    /\ handler = "handle_monday_create_doc"
    /\ raised = TransportError
    /\ logged = <<[tool |-> CREATE_DOC, error |-> TransportError]>>
    /\ outcome = Raised(TransportError)

C10_Original ==
    (pc = "done" /\ name \in RegisteredNames) => calls = 1

\* C10, amended: an invocation of a registered tool makes at most one
\* Gateway call: none when it raises in the dispatcher or the builder, before
\* the call, and exactly one when it returns content blocks or fails in or
\* after the call; after a Gateway failure no second call is made.
C10_AtMostOneCall ==
    /\ calls \in {0, 1}
    /\ outcome.kind = "content" => calls = 1
    /\ pc = "executing" => calls = 1
    /\ raised \in {TransportError, KeyError, TypeError} => calls = 1
    /\ raised \in {UnknownTool, AttributeError} => calls = 0
    /\ response = GatewayRaised => (calls = 1 /\ pc # "executing")

C10_Witness ==
    /\ pc = "done"
    /\ name = CREATE_DOC
    /\ response = GatewayRaised
    /\ outcome = Raised(TransportError)
    /\ calls = 1

\* The handlers of document.py.
DocumentHandlers ==
    {"handle_monday_get_item_files", "handle_monday_get_update_files",
     "handle_monday_get_docs", "handle_monday_get_doc_content",
     "handle_monday_create_doc", "handle_monday_add_doc_block"}

\* The mapping is a dict that lacks a required argument of the tool invoked.
LacksRequired ==
    /\ pc # "idle"
    /\ name \in RegisteredNames
    /\ arguments # NoneVal
    /\ \E k \in Required(name) : ~HasKey(arguments, k)

\* The pieces of a document of document.py that precede the value of a
\* required argument.
RequiredClause(h, k) ==
    CASE h = "handle_monday_get_item_files" -> <<"query { items (ids: ">>
      [] h = "handle_monday_get_update_files" -> <<"query { updates (ids: ">>
      [] h = "handle_monday_get_doc_content" -> <<"query { docs (ids: [">>
      [] h = "handle_monday_create_doc" /\ k = "title" ->
           <<"mutation { create_doc ( name: ", Quote>>
      [] h = "handle_monday_add_doc_block" /\ k = "doc_id" ->
           <<"mutation { add_doc_block ( doc_id: ">>
      [] h = "handle_monday_add_doc_block" /\ k = "block_type" -> <<", type: ">>
      [] OTHER -> <<", content: ", Quote>>

\* C11 as stated: an invocation of a registered tool whose mapping lacks a
\* required argument is not rejected: a document is built with the absent
\* value and sent to the Gateway, and no error is raised before that call.
C11_Original ==
    LacksRequired => (calls = 1 /\ document # <<>>)

\* C11, amended: the dispatcher rejects no invocation for a missing required
\* argument and passes None to the handler.  The handlers of document.py
\* render an absent item id, update id, document id, title or block type as
\* None in the document they send to the Gateway; an absent content makes
\* create-doc and add-doc-block raise AttributeError in the builder, before
\* the Gateway call.
C11_MissingRequiredPassedOn ==
    LacksRequired =>
        /\ raised # UnknownTool
        /\ handler \in DocumentHandlers =>
              IF handler \in {"handle_monday_create_doc", "handle_monday_add_doc_block"}
                 /\ ~HasKey(arguments, "content")
              THEN /\ calls = 0
                   /\ document = <<>>
                   /\ raised = AttributeError
              ELSE /\ calls = 1
                   /\ raised # AttributeError
                   /\ \A k \in Required(name) :
                         ~HasKey(arguments, k) =>
                            Occurs(RequiredClause(handler, k) \o <<"None">>, document)
        /\ handler \notin DocumentHandlers => raised # AttributeError

C11_Witness ==
    /\ pc = "done"
    /\ handler = "handle_monday_create_doc"
    /\ ~HasKey(arguments, "title")
    /\ HasKey(arguments, "content")
    /\ calls = 1
    /\ Occurs(<<"mutation { create_doc ( name: ", Quote, "None", Quote>>, document)
    /\ outcome.kind = "content"

\* The piece that ends a paragraph.
ParagraphEnd == "\n\n"

\* The paragraphs of text: the runs of pieces up to and including each
\* ParagraphEnd (and what is left after the last one, if anything).
RECURSIVE Paragraphs(_)
Paragraphs(text) ==
    IF text = <<>> THEN <<>>
    ELSE LET ends == {i \in DOMAIN text : text[i] = ParagraphEnd} IN
         IF ends = {} THEN <<text>>
         ELSE LET k == CHOOSE i \in ends : \A j \in ends : i <= j IN
              <<SubSeq(text, 1, k)>> \o Paragraphs(SubSeq(text, k + 1, Len(text)))

\* What follows the first occurrence of piece in text.
After(text, piece) ==
    LET at == {i \in DOMAIN text : text[i] = piece} IN
    IF at = {} THEN <<>>
    ELSE SubSeq(text, (CHOOSE i \in at : \A j \in at : i <= j) + 1, Len(text))

\* par starts with the pieces of start.
StartsWith(par, start) ==
    Len(par) >= Len(start) /\ SubSeq(par, 1, Len(start)) = start

\* The i-th paragraph of pars, and no other number of paragraphs, describes
\* the i-th asset: its name first, then its URL.
AssetParagraphs(pars, assets) ==
    /\ Len(pars) = Len(assets)
    /\ \A i \in DOMAIN assets :
          /\ StartsWith(pars[i], <<"Asset Name: ">> \o Render(assets[i].m["name"])
                                 \o <<"\nURL: ">> \o Render(assets[i].m["url"]))
          /\ pars[i][Len(pars[i])] = ParagraphEnd

\* The response holds a non-empty list under key, and content was returned.
Rendered(h, key) ==
    /\ handler = h
    /\ Answered
    /\ outcome.kind = "content"
    /\ ~NothingFound(response, key)
    /\ response.m["data"].t = "dict"

\* C12: a non-empty result is rendered as one paragraph per entity, in the
\* order of the response: the i-th paragraph of get-docs describes the i-th
\* document, and the i-th asset paragraph of get-item-files and of
\* get-update-files describes the i-th asset; none is moved, dropped or
\* repeated.
C12_OneParagraphPerEntityInOrder ==
    /\ Rendered("handle_monday_get_docs", "docs") =>
          LET docs == response.m["data"].m["docs"].l
              pars == Paragraphs(After(outcome.blocks[1].text, "Documents:\n\n"))
          IN  /\ Len(pars) = Len(docs)
              /\ \A i \in DOMAIN docs :
                    StartsWith(pars[i], <<"Document ID: ">> \o Render(docs[i].m["id"])
                                        \o <<"\nName: ">> \o Render(docs[i].m["name"]))
    /\ Rendered("handle_monday_get_update_files", "updates") =>
          LET assets == ListOf(response.m["data"].m["updates"].l[1], "assets") IN
          assets # <<>> =>
             AssetParagraphs(Paragraphs(After(outcome.blocks[1].text, ":\n\n")), assets)
    /\ Rendered("handle_monday_get_item_files", "items") =>
          LET assets == ListOf(response.m["data"].m["items"].l[1], "assets") IN
          assets # <<>> =>
             AssetParagraphs(Paragraphs(After(outcome.blocks[1].text, "ASSETS:\n")), assets)

C12_Witness ==
    /\ pc = "done"
    /\ Rendered("handle_monday_get_item_files", "items")
    /\ ListOf(response.m["data"].m["items"].l[1], "assets")
         = <<Asset("logo.png", StrVal(<<"https://p/logo">>)), Asset("spec.pdf", NoneVal)>>
    /\ ListOf(response.m["data"].m["items"].l[1], "column_values")
         = <<Column("file", "Broken", StrVal(JsonInvalid)),
             Column("file", "Docs", StrVal(JsonOneFile))>>
    /\ Len(Paragraphs(After(outcome.blocks[1].text, "ASSETS:\n"))) = 2

\* A registered tool was invoked with arguments = None.
NullArguments == pc # "idle" /\ name \in RegisteredNames /\ arguments = NoneVal

\* C13: with arguments = None every registered tool but list-boards raises in
\* the dispatcher, on its first arguments.get: no document is built and the
\* Gateway is not called, the error is logged and then re-raised to the host.
\* list-boards is routed to its handler and raises nothing in the dispatcher.
C13_NullArgumentsRaiseInDispatcher ==
    NullArguments =>
       IF name = LIST_BOARDS
       THEN /\ handler = "handle_monday_list_boards"
            /\ raised \notin {AttributeError, UnknownTool}
            /\ pc = "executing" => (raised = NoError /\ logged = <<>>)
       ELSE /\ raised = AttributeError
            /\ document = <<>>
            /\ calls = 0
            /\ response = NoResponse
            /\ pc \in {"except", "logged", "done"}
            /\ pc = "except" => logged = <<>>
            /\ pc \in {"logged", "done"} => logged = <<[tool |-> name, error |-> AttributeError]>>
            /\ pc = "done" => outcome = Raised(AttributeError)
            /\ pc # "done" => outcome = NoOutcome

C13_Witness ==
    /\ pc = "done"
    /\ name = GET_DOCS
    /\ arguments = NoneVal
    /\ calls = 0
    /\ document = <<>>
    /\ logged = <<[tool |-> GET_DOCS, error |-> AttributeError]>>
    /\ outcome = Raised(AttributeError)

\* C14: an invocation of get-item-files, get-update-files, get-docs,
\* get-doc-content, create-doc or add-doc-block that returns, returns exactly
\* one content block, of type text, whether the Gateway response holds no
\* entity, one or several, and whether the handler reports what it found or
\* that it found nothing or failed.
C14_OneTextBlock ==
    (handler \in DocumentHandlers /\ outcome.kind = "content") =>
       /\ Len(outcome.blocks) = 1
       /\ outcome.blocks[1].type = "text"
       /\ outcome.blocks[1].text \in Seq(STRING)
       /\ outcome.blocks[1].text # <<>>

C14_Witness ==
    /\ pc = "done"
    /\ handler = "handle_monday_get_docs"
    /\ outcome.kind = "content"
    /\ ~NothingFound(response, "docs")
    /\ Len(response.m["data"].m["docs"].l) = 2
    /\ Len(outcome.blocks) = 1
    /\ outcome.blocks[1].type = "text"

====
